---- MODULE Spec2Model ----
(***************************************************************************)
(* Model of two routines of SLATE:                                         *)
(*   internal::trmm, HostTask target  (src/slate_internal_trmm.cc)         *)
(*   gecondest                        (src/unnamed/part_000)               *)
(* Tiles are modelled as integers (1x1 tiles in exact arithmetic), so the  *)
(* tile kernels are integer multiply and multiply-accumulate.              *)
(***************************************************************************)
EXTENDS Integers, Sequences, FiniteSets, TLC

(***************************************************************************)
(* Bounds and input sets.                                                  *)
(***************************************************************************)
MaxK == 2                       \* largest A.nt() and B.mt()
MaxTasks == 4                   \* largest number of tiles of B, hence of tasks
AmtVals == {1, 2}               \* values of A.mt()
AlphaVals == {1, 2}             \* values of alpha
TileVals == {1, 2}              \* values of one tile
NProcs == 2                     \* number of processes of the MPI communicator
MaxInFlight == 1                \* broadcasts one receiver may have buffered
NormVals == {"One", "Inf", "Fro"}       \* values of in_norm
MVals == {0, 1, 2}              \* values of A.m()
EstVals == {0, 1}               \* values norm1est stores into Ainvnorm

VARIABLES
    \* ---- internal::trmm ----
    Amt,        \* A.mt()
    Ant,        \* A.nt()
    Bmt,        \* B.mt()
    Bnt,        \* B.nt()
    alpha,      \* scalar alpha
    A,          \* A(i, k): tiles of A
    B,          \* B(k, n): tiles of B
    B0,         \* B on entry
    A0,         \* A on entry
    tpc,        \* position of the thread that called internal::trmm
    ln,         \* loop variable n of the spawning thread
    lk,         \* loop variable k of the spawning thread
    task,       \* task[<<k, n>>]: the task that writes B(B.mt()-1, n) from A(0, k)
    \* ---- gecondest ----
    in_norm,    \* argument in_norm (the same on every process)
    Anorm,      \* argument Anorm (the same on every process)
    m,          \* A.m()
    root,       \* X.tileRank(0, 0)
    gpc,        \* gpc[p]: position of process p in gecondest
    kase,       \* kase[p]
    kase1,      \* kase1[p]
    isave,      \* isave[p]
    Ainvnorm,   \* Ainvnorm[p]
    chan,       \* chan[p]: broadcasts sent by the root, not yet received by p
    trace,      \* trace[p]: the calls process p has made, in order
    round,      \* round[p]: number of norm1est calls process p has made
    sentIsave,  \* sentIsave[r]: isave the root broadcast after its r-th norm1est
    sentKase,   \* sentKase[r]: kase the root broadcast after its r-th norm1est
    rcond,      \* rcond[p]: value returned, <<numerator, denominator>>
    err,        \* err[p]: message of the slate_error raised, or ""
    written     \* written[p]: matrices the driver wrote since the last norm1est

trmmVars == <<Amt, Ant, Bmt, Bnt, alpha, A, B, B0, A0, tpc, ln, lk, task>>

condVars == <<in_norm, Anorm, m, root, gpc, kase, kase1, isave, Ainvnorm,
              chan, trace, round, sentIsave, sentKase, rcond, err, written>>

vars == <<trmmVars, condVars>>

(***************************************************************************)
(* Tile kernels (slate_Tile_blas.hh), on 1x1 tiles.                        *)
(***************************************************************************)
\* trmm(side, diag, alpha, A, B):  B := alpha * A * B
tile_trmm(al, a, b) == al * a * b

\* gemm(alpha, A, B, beta, C):  C := alpha * A * B + beta * C
tile_gemm(al, a, b, be, c) == al * a * b + be * c

(***************************************************************************)
(* internal::trmm, Target::HostTask.                                       *)
(***************************************************************************)
TaskIds == (0 .. MaxK - 1) \X (0 .. MaxTasks - 1)

NoTask == [st |-> "none", tmp |-> 0]

\* The task spawned for (k, n): k = A.nt()-1 is the diagonal trmm task of
\* the first loop, k < A.nt()-1 the gemm task of the second loop.
IsSpawned(k, n) == task[<<k, n>>].st # "none"
IsRunning(k, n) == task[<<k, n>>].st = "running"
IsDone(k, n) == task[<<k, n>>].st = "done"

TrmmInit ==
    /\ Amt \in AmtVals
    /\ Ant \in 1 .. MaxK
    /\ Bmt \in 1 .. MaxK
    /\ Bnt \in 0 .. MaxTasks
    /\ Ant * Bnt <= MaxTasks
    /\ Bmt * Bnt <= MaxTasks
    /\ alpha \in AlphaVals
    /\ A \in [(0 .. Amt - 1) \X (0 .. Ant - 1) -> TileVals]
    /\ B \in [(0 .. Bmt - 1) \X (0 .. Bnt - 1) -> TileVals]
    /\ B0 = B
    /\ A0 = A
    /\ tpc = "entry"
    /\ ln = 0
    /\ lk = 0
    /\ task = [t \in TaskIds |-> NoTask]

\* Variant: the second assertion is missing.
AssertsHold_FirstOnly == Amt = 1

\* assert(A.mt() == 1); assert(A.nt() == B.mt());
AssertsHold == Amt = 1 /\ Ant = Bmt

CheckAsserts ==
    /\ tpc = "entry"
    /\ tpc' = IF AssertsHold THEN "loop_trmm" ELSE "aborted"
    /\ ln' = 0
    /\ UNCHANGED <<Amt, Ant, Bmt, Bnt, alpha, A, B, B0, A0, lk, task>>
    /\ UNCHANGED condVars

\* for (n = 0; n < B.nt(); ++n)  #pragma omp task shared(A, B)  { trmm(...) }
SpawnTrmm ==
    /\ tpc = "loop_trmm"
    /\ ln < Bnt
    /\ task' = [task EXCEPT ![<<Ant - 1, ln>>] = [st |-> "pending", tmp |-> 0]]
    /\ ln' = ln + 1
    /\ UNCHANGED <<Amt, Ant, Bmt, Bnt, alpha, A, B, B0, A0, tpc, lk>>
    /\ UNCHANGED condVars

\* end of the first loop; k = A.nt()-2, n = 0
EndTrmmLoop ==
    /\ tpc = "loop_trmm"
    /\ ln >= Bnt
    /\ tpc' = "loop_gemm"
    /\ lk' = Ant - 2
    /\ ln' = 0
    /\ UNCHANGED <<Amt, Ant, Bmt, Bnt, alpha, A, B, B0, A0, task>>
    /\ UNCHANGED condVars

\* for (k ...) for (n ...)  #pragma omp task shared(A, B)  { gemm(...) }
SpawnGemm ==
    /\ tpc = "loop_gemm"
    /\ lk >= 0
    /\ ln < Bnt
    /\ task' = [task EXCEPT ![<<lk, ln>>] = [st |-> "pending", tmp |-> 0]]
    /\ ln' = ln + 1
    /\ UNCHANGED <<Amt, Ant, Bmt, Bnt, alpha, A, B, B0, A0, tpc, lk>>
    /\ UNCHANGED condVars

\* end of the inner loop: --k, n = 0
NextK ==
    /\ tpc = "loop_gemm"
    /\ lk >= 0
    /\ ln >= Bnt
    /\ lk' = lk - 1
    /\ ln' = 0
    /\ UNCHANGED <<Amt, Ant, Bmt, Bnt, alpha, A, B, B0, A0, tpc, task>>
    /\ UNCHANGED condVars

\* end of the outer loop: the thread reaches #pragma omp taskwait
EndGemmLoop ==
    /\ tpc = "loop_gemm"
    /\ lk < 0
    /\ tpc' = "taskwait"
    /\ UNCHANGED <<Amt, Ant, Bmt, Bnt, alpha, A, B, B0, A0, ln, lk, task>>
    /\ UNCHANGED condVars

\* #pragma omp taskwait: every child task of the call has completed
AllTasksComplete ==
    \A t \in TaskIds : task[t].st \in {"none", "done"}

\* Variant: the thread does not wait for its tasks.
TaskwaitOpen_NoWait == TRUE

TaskwaitOpen == AllTasksComplete

Taskwait ==
    /\ tpc = "taskwait"
    /\ TaskwaitOpen
    /\ tpc' = "returned"
    /\ UNCHANGED <<Amt, Ant, Bmt, Bnt, alpha, A, B, B0, A0, ln, lk, task>>
    /\ UNCHANGED condVars

\* Variant: the task (k, n) stores into its operand B(k, n).
Dest_Operand(k, n) == <<k, n>>

\* The tile the task (k, n) updates: B(B.mt()-1, n).
Dest(k, n) == <<Bmt - 1, n>>

\* The tasks carry no depend clause: the runtime may start a spawned task at
\* any time, whatever other tasks are pending or running.
MayStart(k, n) == task[<<k, n>>].st = "pending"

\* A task starts: the kernel reads the tile B(B.mt()-1, n) it updates.
StartTask(k, n) ==
    /\ MayStart(k, n)
    /\ task' = [task EXCEPT ![<<k, n>>] = [st |-> "running", tmp |-> B[Dest(k, n)]]]
    /\ UNCHANGED <<Amt, Ant, Bmt, Bnt, alpha, A, B, B0, A0, tpc, ln, lk>>
    /\ UNCHANGED condVars

\* The value the task (k, n) stores into B(B.mt()-1, n).
TaskResult(k, n) ==
    IF k = Ant - 1
    THEN tile_trmm(alpha, A[<<0, Ant - 1>>], task[<<k, n>>].tmp)
    ELSE tile_gemm(alpha, A[<<0, k>>], B[<<k, n>>], 1, task[<<k, n>>].tmp)

\* A task finishes: the kernel has stored its result.
FinishTask(k, n) ==
    /\ IsRunning(k, n)
    /\ B' = [B EXCEPT ![Dest(k, n)] = TaskResult(k, n)]
    /\ task' = [task EXCEPT ![<<k, n>>] = [st |-> "done", tmp |-> 0]]
    /\ UNCHANGED <<Amt, Ant, Bmt, Bnt, alpha, A, B0, A0, tpc, ln, lk>>
    /\ UNCHANGED condVars

RunTask ==
    \E t \in TaskIds : StartTask(t[1], t[2])

EndTask ==
    \E t \in TaskIds : FinishTask(t[1], t[2])

(***************************************************************************)
(* gecondest.  Every process of A.mpiComm() runs the routine with the same *)
(* arguments.                                                              *)
(***************************************************************************)
Procs == 0 .. NProcs - 1

\* values of X.tileRank(0, 0)
RootVals == {0, NProcs - 1}

\* Real arguments: a number or NaN.  Every comparison with NaN is false.
NaN == [nan |-> TRUE, v |-> 0]
Real(x) == [nan |-> FALSE, v |-> x]
AnormVals == {NaN} \cup {Real(x) : x \in {-1, 0, 2}}
isnan(x) == x.nan
Less(x, c) == ~x.nan /\ x.v < c
Equal(x, c) == ~x.nan /\ x.v = c

NoValue == <<>>

Event(op, arg) == <<op, arg>>

\* ---- internal::norm1est (reverse-communication estimator) ----
\* isave = <<phase, best index, refinement iterations, sign history>>
INIT == 0
AWAIT_FIRST_PRODUCT == 1
AWAIT_SECOND_PRODUCT == 2
REFINE == 3
DONE == 4
ItMax == 5

\* The results one call may produce from (kase, isave, est) on the process
\* that owns the tile X(0, 0): [kase, isave, est].
norm1est(k, is, est, mm) ==
    IF k = 0
    THEN {[kase |-> 1, isave |-> <<AWAIT_FIRST_PRODUCT, 0, 0, 0>>, est |-> est]}
    ELSE IF is[1] = AWAIT_FIRST_PRODUCT
    THEN {[kase |-> 2, isave |-> <<AWAIT_SECOND_PRODUCT, 0, 0, 0>>, est |-> e] :
            e \in {x \in EstVals : x >= est}}
    ELSE IF is[1] = AWAIT_SECOND_PRODUCT
    THEN {[kase |-> 1, isave |-> <<REFINE, mm - 1, 1, 0>>, est |-> est]}
    ELSE IF is[1] = REFINE
    THEN {[kase |-> 0, isave |-> <<DONE, is[2], is[3], is[4]>>, est |-> e] :
            e \in {x \in EstVals : x >= est}}
         \cup
         (IF is[3] < ItMax
          THEN {[kase |-> 3 - k, isave |-> <<REFINE, is[2], is[3] + 1, 1 - is[4]>>,
                 est |-> e] : e \in {x \in EstVals : x >= est}}
          ELSE {})
    ELSE {[kase |-> 0, isave |-> is, est |-> est]}

\* On a process that does not own X(0, 0) the bookkeeping a call leaves in
\* kase and isave is not meaningful: any request code, isave left as it was.
norm1estLocal(k, is, est, mm) ==
    {[kase |-> kk, isave |-> is, est |-> e] :
        kk \in 0 .. 2, e \in {o.est : o \in norm1est(k, is, est, mm)}}

CondInit ==
    /\ in_norm \in NormVals
    /\ Anorm \in AnormVals
    /\ m \in MVals
    /\ root \in RootVals
    /\ gpc = [p \in Procs |-> "entry"]
    /\ kase = [p \in Procs |-> 0]
    /\ kase1 = [p \in Procs |-> 0]
    /\ isave = [p \in Procs |-> <<0, 0, 0, 0>>]
    /\ Ainvnorm = [p \in Procs |-> 0]
    /\ chan = [p \in Procs |-> <<>>]
    /\ trace = [p \in Procs |-> <<>>]
    /\ round = [p \in Procs |-> 0]
    /\ sentIsave = <<>>
    /\ sentKase = <<>>
    /\ rcond = [p \in Procs |-> NoValue]
    /\ err = [p \in Procs |-> ""]
    /\ written = [p \in Procs |-> {}]

\* Variant: the selector is not checked.
ValidNorm_Any == TRUE

\* if (in_norm == Norm::One) ... else slate_error("invalid norm.");
ValidNorm == in_norm = "One" \/ in_norm = "Inf"

\* Variant: the test for NaN is missing.
InvalidAnorm_NoNaN == Less(Anorm, 0)

\* if (Anorm < 0 || std::isnan( Anorm )) slate_error( "invalid Anorm" );
InvalidAnorm == Less(Anorm, 0) \/ isnan(Anorm)

\* Argument checks; slate_error throws.
\* Variant: the probe vectors are allocated before the arguments are tested.
Validate_Late(p) ==
    /\ gpc[p] = "entry"
    /\ trace' = [trace EXCEPT ![p] =
                    @ \o <<Event("alloc_X", -1), Event("alloc_V", -1),
                           Event("alloc_isgn", -1)>>]
    /\ IF ~ValidNorm
       THEN /\ gpc' = [gpc EXCEPT ![p] = "error"]
            /\ err' = [err EXCEPT ![p] = "invalid norm."]
            /\ UNCHANGED kase1
       ELSE /\ kase1' = [kase1 EXCEPT ![p] = IF in_norm = "One" THEN 1 ELSE 2]
            /\ IF InvalidAnorm
               THEN /\ gpc' = [gpc EXCEPT ![p] = "error"]
                    /\ err' = [err EXCEPT ![p] = "invalid Anorm"]
               ELSE /\ gpc' = [gpc EXCEPT ![p] = "quick"]
                    /\ UNCHANGED err
    /\ UNCHANGED <<in_norm, Anorm, m, root, written, kase, isave, Ainvnorm, chan,
                   round, sentIsave, sentKase, rcond>>
    /\ UNCHANGED trmmVars

\* Argument checks at entry: norm selector, then Anorm.
Validate(p) ==
    /\ gpc[p] = "entry"
    /\ IF ~ValidNorm
       THEN /\ gpc' = [gpc EXCEPT ![p] = "error"]
            /\ err' = [err EXCEPT ![p] = "invalid norm."]
            /\ UNCHANGED kase1
       ELSE /\ kase1' = [kase1 EXCEPT ![p] = IF in_norm = "One" THEN 1 ELSE 2]
            /\ IF InvalidAnorm
               THEN /\ gpc' = [gpc EXCEPT ![p] = "error"]
                    /\ err' = [err EXCEPT ![p] = "invalid Anorm"]
               ELSE /\ gpc' = [gpc EXCEPT ![p] = "quick"]
                    /\ UNCHANGED err
    /\ UNCHANGED <<in_norm, Anorm, m, root, written, kase, isave, Ainvnorm, chan, trace,
                   round, sentIsave, sentKase, rcond>>
    /\ UNCHANGED trmmVars

\* Variant: the test is m < 1.
QuickOne_Strict == m < 1

\* Variant: the test for Anorm == 0 comes first.
QuickOne_AfterZero == m <= 1 /\ ~Equal(Anorm, 0)

\* if (m <= 1) return 1.;
QuickOne == m <= 1

\* Variant: there is no quick return for Anorm == 0.
QuickZero_Missing == FALSE

\* else if (Anorm == 0.) return 0.;
QuickZero == Equal(Anorm, 0)

\* Quick return
QuickReturn(p) ==
    /\ gpc[p] = "quick"
    /\ IF QuickOne
       THEN /\ rcond' = [rcond EXCEPT ![p] = <<1, 1>>]
            /\ gpc' = [gpc EXCEPT ![p] = "returned"]
       ELSE IF QuickZero
       THEN /\ rcond' = [rcond EXCEPT ![p] = <<0, 1>>]
            /\ gpc' = [gpc EXCEPT ![p] = "returned"]
       ELSE /\ gpc' = [gpc EXCEPT ![p] = "setup"]
            /\ UNCHANGED rcond
    /\ UNCHANGED <<in_norm, Anorm, m, root, written, kase, kase1, isave, Ainvnorm, chan,
                   trace, round, sentIsave, sentKase, err>>
    /\ UNCHANGED trmmVars

\* Ainvnorm = 0; isave = {0,0,0,0}; X, V, isgn allocated; kase = 0
Setup(p) ==
    /\ gpc[p] = "setup"
    /\ Ainvnorm' = [Ainvnorm EXCEPT ![p] = 0]
    /\ isave' = [isave EXCEPT ![p] = <<0, 0, 0, 0>>]
    /\ trace' = [trace EXCEPT ![p] = @ \o <<Event("alloc_X", -1),
                     Event("alloc_V", -1), Event("alloc_isgn", -1)>>]
    /\ kase' = [kase EXCEPT ![p] = 0]
    /\ gpc' = [gpc EXCEPT ![p] = "norm1est"]
    /\ UNCHANGED <<in_norm, Anorm, m, root, written, kase1, chan, round, sentIsave,
                   sentKase, rcond, err>>
    /\ UNCHANGED trmmVars

\* Variant: the two broadcasts in the other order.
BcastOrder_Swapped == <<"bcast_kase", "bcast_isave">>

\* The broadcasts that follow each norm1est call, in program order.
BcastOrder == <<"bcast_isave", "bcast_kase">>

AfterBcast(pc) == IF pc = BcastOrder[1] THEN BcastOrder[2] ELSE "while"

\* internal::norm1est( X, V, isgn, &Ainvnorm, &kase, isave );
Norm1est(p) ==
    /\ gpc[p] = "norm1est"
    /\ \E o \in IF p = root
                THEN norm1est(kase[p], isave[p], Ainvnorm[p], m)
                ELSE norm1estLocal(kase[p], isave[p], Ainvnorm[p], m) :
          /\ kase' = [kase EXCEPT ![p] = o.kase]
          /\ isave' = [isave EXCEPT ![p] = o.isave]
          /\ Ainvnorm' = [Ainvnorm EXCEPT ![p] = o.est]
    /\ trace' = [trace EXCEPT ![p] = Append(@, Event("norm1est", kase[p]))]
    /\ round' = [round EXCEPT ![p] = @ + 1]
    /\ gpc' = [gpc EXCEPT ![p] = BcastOrder[1]]
    /\ written' = [written EXCEPT ![p] = {}]
    /\ UNCHANGED <<in_norm, Anorm, m, root, kase1, chan, sentIsave, sentKase,
                   rcond, err>>
    /\ UNCHANGED trmmVars

\* Variant: the receiver keeps its own isave.
ReceivedIsave_Local(old, msg) == old

\* MPI_Bcast of isave: the value a receiver holds after the call.
ReceivedIsave(old, msg) == msg

\* Variant: the receiver keeps its own kase.
ReceivedKase_Local(old, msg) == old

\* MPI_Bcast of kase: the value a receiver holds after the call.
ReceivedKase(old, msg) == msg

\* Room for one more broadcast in every receiver's buffer.
CanSend == \A q \in Procs \ {root} : Len(chan[q]) < MaxInFlight

Send(kind, val) ==
    [q \in Procs |-> IF q = root THEN chan[q]
                     ELSE Append(chan[q], [kind |-> kind, val |-> val])]

\* MPI_Bcast( &isave[0], 4, MPI_INT64_T, X.tileRank(0, 0), A.mpiComm() );
BcastIsave(p) ==
    /\ gpc[p] = "bcast_isave"
    /\ IF p = root
       THEN /\ CanSend
            /\ chan' = Send("isave", isave[p])
            /\ sentIsave' = Append(sentIsave, isave[p])
            /\ UNCHANGED isave
       ELSE /\ chan[p] # <<>>
            /\ Head(chan[p]).kind = "isave"
            /\ isave' = [isave EXCEPT ![p] = ReceivedIsave(@, Head(chan[p]).val)]
            /\ chan' = [chan EXCEPT ![p] = Tail(@)]
            /\ UNCHANGED sentIsave
    /\ trace' = [trace EXCEPT ![p] = Append(@, Event("MPI_Bcast_isave", root))]
    /\ gpc' = [gpc EXCEPT ![p] = AfterBcast("bcast_isave")]
    /\ UNCHANGED <<in_norm, Anorm, m, root, written, kase, kase1, Ainvnorm, round,
                   sentKase, rcond, err>>
    /\ UNCHANGED trmmVars

\* MPI_Bcast( &kase, 1, MPI_INT, X.tileRank(0, 0), A.mpiComm() );
BcastKase(p) ==
    /\ gpc[p] = "bcast_kase"
    /\ IF p = root
       THEN /\ CanSend
            /\ chan' = Send("kase", kase[p])
            /\ sentKase' = Append(sentKase, kase[p])
            /\ UNCHANGED kase
       ELSE /\ chan[p] # <<>>
            /\ Head(chan[p]).kind = "kase"
            /\ kase' = [kase EXCEPT ![p] = ReceivedKase(@, Head(chan[p]).val)]
            /\ chan' = [chan EXCEPT ![p] = Tail(@)]
            /\ UNCHANGED sentKase
    /\ trace' = [trace EXCEPT ![p] = Append(@, Event("MPI_Bcast_kase", root))]
    /\ gpc' = [gpc EXCEPT ![p] = AfterBcast("bcast_kase")]
    /\ UNCHANGED <<in_norm, Anorm, m, root, written, kase1, isave, Ainvnorm, round,
                   sentIsave, rcond, err>>
    /\ UNCHANGED trmmVars

\* Variant: the loop does not test the request code.
WhileCond_Always(p) == TRUE

\* while (kase != 0)
WhileCond(p) == kase[p] # 0

\* Variant: the two branches are exchanged.
ForwardBranch_Swapped(p) == kase[p] # kase1[p]

\* if (kase == kase1)
ForwardBranch(p) == kase[p] = kase1[p]

\* Variant: the solves are applied to V.
SolveTarget_V == "V"

\* slate::trsm( Side::Left, alpha, ., X, opts ): the matrix overwritten
SolveTarget == "X"

\* Multiply by inv(L), then by inv(U).
ApplyInverse(p) ==
    /\ gpc[p] = "while"
    /\ WhileCond(p)
    /\ ForwardBranch(p)
    /\ trace' = [trace EXCEPT ![p] = @ \o <<Event("trsm_L", kase[p]),
                                             Event("trsm_U", kase[p])>>]
    /\ gpc' = [gpc EXCEPT ![p] = "norm1est"]
    /\ written' = [written EXCEPT ![p] = @ \cup {SolveTarget}]
    /\ UNCHANGED <<in_norm, Anorm, m, root, kase, kase1, isave, Ainvnorm, chan,
                   round, sentIsave, sentKase, rcond, err>>
    /\ UNCHANGED trmmVars

\* Multiply by inv(U^H), then by inv(L^H).
ApplyInverseH(p) ==
    /\ gpc[p] = "while"
    /\ WhileCond(p)
    /\ ~ForwardBranch(p)
    /\ trace' = [trace EXCEPT ![p] = @ \o <<Event("trsm_UH", kase[p]),
                                             Event("trsm_LH", kase[p])>>]
    /\ gpc' = [gpc EXCEPT ![p] = "norm1est"]
    /\ written' = [written EXCEPT ![p] = @ \cup {SolveTarget}]
    /\ UNCHANGED <<in_norm, Anorm, m, root, kase, kase1, isave, Ainvnorm, chan,
                   round, sentIsave, sentKase, rcond, err>>
    /\ UNCHANGED trmmVars

\* (1.0 / Ainvnorm) / Anorm, as a fraction
Reciprocal(ainv, an) == <<1, ainv * an.v>>

\* Variant: the reciprocal is formed whatever the estimate is.
EstimateNonzero_Always(p) == TRUE

\* if (Ainvnorm != 0.0)
EstimateNonzero(p) == Ainvnorm[p] # 0

\* Compute the estimate of the reciprocal condition number.
Finish(p) ==
    /\ gpc[p] = "while"
    /\ ~WhileCond(p)
    /\ rcond' = [rcond EXCEPT ![p] = IF EstimateNonzero(p)
                                     THEN Reciprocal(Ainvnorm[p], Anorm)
                                     ELSE <<0, 1>>]
    /\ gpc' = [gpc EXCEPT ![p] = "returned"]
    /\ UNCHANGED <<in_norm, Anorm, m, root, written, kase, kase1, isave, Ainvnorm, chan,
                   trace, round, sentIsave, sentKase, err>>
    /\ UNCHANGED trmmVars

(***************************************************************************)
(* Specifications.  Spec is one call of internal::trmm; CondSpec is one    *)
(* collective call of gecondest.                                           *)
(***************************************************************************)
CondIdle ==
    /\ in_norm = "One"
    /\ Anorm = Real(0)
    /\ m = 0
    /\ root = 0
    /\ gpc = [p \in Procs |-> "idle"]
    /\ kase = [p \in Procs |-> 0]
    /\ kase1 = [p \in Procs |-> 0]
    /\ isave = [p \in Procs |-> <<0, 0, 0, 0>>]
    /\ Ainvnorm = [p \in Procs |-> 0]
    /\ chan = [p \in Procs |-> <<>>]
    /\ trace = [p \in Procs |-> <<>>]
    /\ round = [p \in Procs |-> 0]
    /\ sentIsave = <<>>
    /\ sentKase = <<>>
    /\ rcond = [p \in Procs |-> NoValue]
    /\ err = [p \in Procs |-> ""]
    /\ written = [p \in Procs |-> {}]

TrmmIdle ==
    /\ Amt = 1
    /\ Ant = 1
    /\ Bmt = 1
    /\ Bnt = 0
    /\ alpha = 1
    /\ A = <<>>
    /\ B = <<>>
    /\ B0 = <<>>
    /\ A0 = <<>>
    /\ tpc = "idle"
    /\ ln = 0
    /\ lk = 0
    /\ task = [t \in TaskIds |-> NoTask]

Init == TrmmInit /\ CondIdle


Next ==
    \/ CheckAsserts
    \/ SpawnTrmm
    \/ EndTrmmLoop
    \/ SpawnGemm
    \/ NextK
    \/ EndGemmLoop
    \/ Taskwait
    \/ RunTask
    \/ EndTask

Spec == Init /\ [][Next]_vars

CondStep(p) ==
    \/ Validate(p)
    \/ QuickReturn(p)
    \/ Setup(p)
    \/ Norm1est(p)
    \/ BcastIsave(p)
    \/ BcastKase(p)
    \/ ApplyInverse(p)
    \/ ApplyInverseH(p)
    \/ Finish(p)

CondNext == \E p \in Procs : CondStep(p)

CondStart == CondInit /\ TrmmIdle

CondSpec == CondStart /\ [][CondNext]_vars

\* Every process keeps running: a process that can take a step takes one.
CondFairSpec == CondSpec /\ \A p \in Procs : WF_vars(CondStep(p))

(***************************************************************************)
(* Properties of internal::trmm, checked under Spec.                       *)
(***************************************************************************)
Cols == 0 .. Bnt - 1

\* C1: when the call returns, every tile B(K-1,n) equals
\* alpha*A(0,K-1)*B0(K-1,n) + sum over k in 0..K-2 of alpha*A(0,k)*B0(k,n),
\* the result of running the two loops sequentially, whatever the schedule
\* of the tasks.
C1_ResultIsSequential ==
    LET Gemms[k \in -1 .. MaxK, n \in Cols] ==
            IF k < 0 THEN 0
            ELSE alpha * A[<<0, k>>] * B0[<<k, n>>] + Gemms[k - 1, n]
    IN  tpc = "returned" =>
            \A n \in Cols :
                B[<<Bmt - 1, n>>] =
                    alpha * A[<<0, Ant - 1>>] * B0[<<Bmt - 1, n>>] + Gemms[Ant - 2, n]

\* C2: no tile is written by two tasks at the same time: for every column n,
\* no two of the tasks that write B(K-1,n) are running together.
C2_NoConcurrentWriters ==
    \A n \in 0 .. MaxTasks - 1 : \A k1, k2 \in 0 .. MaxK - 1 :
        (IsRunning(k1, n) /\ IsRunning(k2, n)) => k1 = k2

\* C3: the call has returned only when every task it spawns, the N diagonal
\* trmm tasks and the (K-1)*N gemm tasks, has been spawned and has completed.
C3_ReturnsAfterAllTasks ==
    tpc = "returned" =>
        /\ \A k \in 0 .. Ant - 1 : \A n \in Cols : IsDone(k, n)
        /\ Cardinality({t \in TaskIds : task[t].st = "done"}) = Bnt + (Ant - 1) * Bnt
        /\ \A t \in TaskIds : task[t].st \in {"none", "done"}

C3_Witness ==
    tpc = "returned" /\ Ant = 2 /\ Bnt = 2

\* C4: if A.mt() != 1 or A.nt() != B.mt(), the call ends in the assertion
\* failure before any task is spawned, and no tile of B has been modified.
C4_AssertFailsBeforeAnyTask ==
    (Amt # 1 \/ Ant # Bmt) =>
        /\ tpc \in {"entry", "aborted"}
        /\ \A t \in TaskIds : task[t].st = "none"
        /\ B = B0

C4_Witness ==
    tpc = "aborted" /\ Amt = 1 /\ Ant # Bmt /\ Bnt > 0

(***************************************************************************)
(* Properties of gecondest, checked under CondSpec and CondFairSpec.       *)
(***************************************************************************)
Returned(p) == gpc[p] = "returned"
Terminated(p) == gpc[p] \in {"returned", "error"}

\* Process p has made r = round[p] norm1est calls and completed both
\* broadcasts that follow the r-th.
Synced(p) ==
    round[p] > 0 /\ gpc[p] \in {"while", "norm1est", "returned"}

IsBcast(e) == e[1] \in {"MPI_Bcast_isave", "MPI_Bcast_kase"}
IsSolve(e) == e[1] \in {"trsm_L", "trsm_U", "trsm_UH", "trsm_LH"}
Bcasts(p) == SelectSeq(trace[p], IsBcast)
Solves(p) == SelectSeq(trace[p], IsSolve)
Prefix(s, t) == Len(s) <= Len(t) /\ SubSeq(t, 1, Len(s)) = s
LastTwo(s) == SubSeq(s, Len(s) - 1, Len(s))

\* C5: after every estimator call and the broadcasts that follow it, every
\* process holds the request code kase and the state vector isave that the
\* process X.tileRank(0,0) broadcast in that round, so any two processes in
\* the same round hold identical values; all processes leave the loop after
\* the same number of rounds; a broadcast request code 0 is observed as 0.
C5_SameKaseAndIsave ==
    /\ \A p \in Procs : Synced(p) =>
          /\ round[p] <= Len(sentIsave) /\ round[p] <= Len(sentKase)
          /\ kase[p] = sentKase[round[p]]
          /\ isave[p] = sentIsave[round[p]]
    /\ \A p, q \in Procs : (Synced(p) /\ Synced(q) /\ round[p] = round[q]) =>
          (kase[p] = kase[q] /\ isave[p] = isave[q])
    /\ \A p, q \in Procs : (Returned(p) /\ Returned(q)) => round[p] = round[q]
    /\ \A p \in Procs : (Synced(p) /\ Returned(root) /\ round[p] = round[root]) =>
          kase[p] = 0

C5_Witness ==
    \A p \in Procs : Returned(p) /\ round[p] = 4 /\ kase[p] = 0

\* C6: in every round, on every process, the broadcast of isave completes
\* before the broadcast of kase, and both before the loop condition or the
\* kase == kase1 branch is evaluated: a process that is about to branch
\* holds the root's state vector of that round.
C6_IsaveBeforeKase ==
    \A p \in Procs :
        /\ (gpc[p] = "bcast_kase" /\ round[p] > 0) =>
              /\ trace[p][Len(trace[p])] = Event("MPI_Bcast_isave", root)
              /\ round[p] <= Len(sentIsave)
              /\ isave[p] = sentIsave[round[p]]
        /\ gpc[p] = "while" =>
              /\ LastTwo(trace[p]) = <<Event("MPI_Bcast_isave", root),
                                       Event("MPI_Bcast_kase", root)>>
              /\ round[p] <= Len(sentIsave)
              /\ isave[p] = sentIsave[round[p]]
        /\ gpc[p] = "bcast_isave" => trace[p][Len(trace[p])][1] = "norm1est"

C6_Witness ==
    \E p \in Procs \ {root} :
        /\ gpc[p] = "while" /\ kase[p] # 0 /\ round[p] >= 2
        /\ round[root] = round[p] + 1
        /\ isave[root] # isave[p]

\* C7: all processes execute the identical sequence of broadcasts (isave,
\* kase, isave, kase, ..., all with the same root) and take the same
\* kase == kase1 branch in every round, and no process is left in a
\* broadcast that another process never enters.
C7_LockstepBroadcasts ==
    /\ \A p \in Procs : \A i \in 1 .. Len(Bcasts(p)) :
          Bcasts(p)[i] = Event(IF i % 2 = 1 THEN "MPI_Bcast_isave"
                               ELSE "MPI_Bcast_kase", root)
    /\ \A p, q \in Procs :
          /\ Prefix(Bcasts(p), Bcasts(q)) \/ Prefix(Bcasts(q), Bcasts(p))
          /\ Prefix(Solves(p), Solves(q)) \/ Prefix(Solves(q), Solves(p))
          /\ (Terminated(p) /\ Terminated(q)) =>
                (Bcasts(p) = Bcasts(q) /\ Solves(p) = Solves(q) /\ gpc[p] = gpc[q])
    /\ \A p \in Procs \ {root} :
          /\ (gpc[p] \in {"bcast_isave", "bcast_kase"} /\ Terminated(root)) =>
                chan[p] # <<>>
          /\ Terminated(p) => chan[p] = <<>>

C7_Witness ==
    \E p \in Procs \ {root} :
        /\ gpc[p] = "bcast_kase" /\ round[p] >= 3
        /\ Len(sentKase) >= round[p]
        /\ kase[p] = 0 /\ sentKase[round[p]] # 0

\* C8: the estimator loop terminates on every process: request code 0 is
\* reached after at most ItMax = 5 refinement iterations, and reaching the
\* cap ends the loop with a returned estimate, not with an error.
C8_Bounded ==
    \A p \in Procs :
        /\ round[p] <= ItMax + 3
        /\ Synced(p) => isave[p][3] <= ItMax
        /\ (Returned(p) /\ round[p] > 0) =>
              (kase[p] = 0 /\ err[p] = "" /\ rcond[p] # NoValue)
        /\ gpc[p] = "error" => round[p] = 0

C8_LoopTerminates ==
    /\ []C8_Bounded
    /\ <>[](\A p \in Procs : Terminated(p))

C8_Witness ==
    \A p \in Procs :
        Returned(p) /\ isave[p][3] = ItMax /\ round[p] = ItMax + 3

\* C9: for m <= 1 with a valid norm selector and a valid Anorm, gecondest
\* returns exactly 1.0 without a norm1est call, a broadcast, a triangular
\* solve or the allocation of a probe vector.
C9_QuickReturnOne ==
    (m <= 1 /\ in_norm \in {"One", "Inf"} /\ ~Anorm.nan /\ Anorm.v >= 0) =>
        \A p \in Procs :
            /\ trace[p] = <<>>
            /\ round[p] = 0
            /\ chan[p] = <<>>
            /\ gpc[p] \in {"entry", "quick", "returned"}
            /\ Returned(p) => rcond[p] = <<1, 1>>

C9_Witness ==
    /\ m = 1 /\ Anorm = Real(2)
    /\ \A p \in Procs : Returned(p) /\ rcond[p] = <<1, 1>> /\ trace[p] = <<>>

\* C10 as stated: for m = 1, gecondest returns rcond = 1.0 for every value
\* of Anorm that can be passed (valid norm selector).
C10_OneForEveryAnorm ==
    (m = 1 /\ in_norm \in {"One", "Inf"}) =>
        \A p \in Procs : Terminated(p) => rcond[p] = <<1, 1>>

\* C10, amended: for m = 1 and a valid norm selector, gecondest returns
\* rcond = 1.0 for every Anorm that is neither negative nor NaN (zero
\* included); for Anorm < 0 or NaN it raises "invalid Anorm" and returns
\* nothing.
C10_OneForEveryValidAnorm ==
    (m = 1 /\ in_norm \in {"One", "Inf"}) =>
        \A p \in Procs : Terminated(p) =>
            IF Anorm.nan \/ Anorm.v < 0
            THEN gpc[p] = "error" /\ err[p] = "invalid Anorm" /\ rcond[p] = NoValue
            ELSE Returned(p) /\ rcond[p] = <<1, 1>>

C10_Witness ==
    /\ m = 1 /\ Anorm = Real(0) /\ in_norm = "Inf"
    /\ \A p \in Procs : Returned(p) /\ rcond[p] = <<1, 1>>

\* C11 as stated: for Anorm == 0, gecondest returns exactly 0.0 without
\* invoking the iterative loop, for every matrix dimension m (valid norm
\* selector).
C11_ZeroForEveryM ==
    (in_norm \in {"One", "Inf"} /\ ~Anorm.nan /\ Anorm.v = 0) =>
        \A p \in Procs :
            /\ trace[p] = <<>>
            /\ Terminated(p) => (Returned(p) /\ rcond[p] = <<0, 1>>)

\* C11, amended: for Anorm == 0 and m > 1 (valid norm selector), gecondest
\* returns exactly 0.0 without a norm1est call, a broadcast, a triangular
\* solve or an allocation; for Anorm == 0 and m <= 1 it returns 1.0, also
\* without the loop.
C11_ZeroForLargerM ==
    (in_norm \in {"One", "Inf"} /\ ~Anorm.nan /\ Anorm.v = 0) =>
        \A p \in Procs :
            /\ trace[p] = <<>>
            /\ round[p] = 0
            /\ chan[p] = <<>>
            /\ gpc[p] \in {"entry", "quick", "returned"}
            /\ Returned(p) => rcond[p] = IF m > 1 THEN <<0, 1>> ELSE <<1, 1>>

C11_Witness ==
    /\ m = 2 /\ Anorm = Real(0) /\ in_norm = "One"
    /\ \A p \in Procs : Returned(p) /\ rcond[p] = <<0, 1>> /\ trace[p] = <<>>

\* C12: for Anorm < 0 or Anorm NaN, gecondest fails with a precondition
\* error for every norm selector and every m (m <= 1 included); it never
\* returns a numeric result.
C12_InvalidAnormFails ==
    (Anorm.nan \/ Anorm.v < 0) =>
        \A p \in Procs :
            /\ gpc[p] \in {"entry", "error"}
            /\ rcond[p] = NoValue
            /\ gpc[p] = "error" =>
                  err[p] = IF in_norm \in {"One", "Inf"} THEN "invalid Anorm"
                           ELSE "invalid norm."

C12_Witness ==
    /\ Anorm = NaN /\ m = 1 /\ in_norm = "Inf"
    /\ \A p \in Procs : gpc[p] = "error" /\ err[p] = "invalid Anorm"

\* C13: for a norm selector that is neither Norm::One nor Norm::Inf,
\* gecondest fails with the precondition error "invalid norm." for every
\* Anorm and every m; it reaches neither the quick returns nor the loop.
C13_InvalidNormFails ==
    (in_norm \notin {"One", "Inf"}) =>
        \A p \in Procs :
            /\ gpc[p] \in {"entry", "error"}
            /\ rcond[p] = NoValue
            /\ trace[p] = <<>>
            /\ gpc[p] = "error" => err[p] = "invalid norm."

C13_Witness ==
    /\ in_norm = "Fro" /\ Anorm = Real(2) /\ m = 2
    /\ \A p \in Procs : gpc[p] = "error" /\ err[p] = "invalid norm."

\* C14: for each column n the tasks that write B(K-1,n) take effect in
\* program order: no accumulation into B(K-1,n) starts before the diagonal
\* multiply on B(K-1,n) has completed, and the accumulation for k starts
\* only when those for k+1, ..., K-2 have completed.
C14_ProgramOrder ==
    \A n \in Cols : \A k \in 0 .. Ant - 2 :
        task[<<k, n>>].st \in {"running", "done"} =>
            /\ IsDone(Ant - 1, n)
            /\ \A k2 \in k + 1 .. Ant - 2 : IsDone(k2, n)

\* C15: internal::trmm writes only the tiles B(K-1,n): every tile of A and
\* every tile B(k,n) with k < K-1 has its value on entry in every state, so
\* each gemm task reads the original B(k,n).
C15_OnlyLastRowWritten ==
    /\ A = A0
    /\ \A k \in 0 .. Bmt - 2 : \A n \in Cols : B[<<k, n>>] = B0[<<k, n>>]

C15_Witness ==
    /\ tpc = "returned" /\ Ant = 2 /\ Bnt = 2
    /\ \A n \in Cols : B[<<Bmt - 1, n>>] # B0[<<Bmt - 1, n>>]

\* C16: in each round with request code kase != 0 the operator applied to
\* X is chosen by comparing kase with kase1 (1 for Norm::One, 2 for
\* Norm::Inf): for kase == kase1 the solves are inv(L) then inv(U),
\* otherwise inv(U^H) then inv(L^H).  The solve events record the request
\* code they were made under.
C16_SolveSelection ==
    LET k1 == IF in_norm = "One" THEN 1 ELSE 2
    IN  \A p \in Procs :
            /\ Len(Solves(p)) % 2 = 0
            /\ \A i \in 1 .. Len(Solves(p)) : i % 2 = 1 =>
                  LET k == Solves(p)[i][2]
                  IN  /\ k # 0
                      /\ IF k = k1
                         THEN /\ Solves(p)[i] = Event("trsm_L", k)
                              /\ Solves(p)[i + 1] = Event("trsm_U", k)
                         ELSE /\ Solves(p)[i] = Event("trsm_UH", k)
                              /\ Solves(p)[i + 1] = Event("trsm_LH", k)
            /\ Solves(p) # <<>> => kase1[p] = k1

C16_Witness ==
    /\ in_norm = "Inf"
    /\ \E p \in Procs \ {root} :
          /\ Len(Solves(p)) >= 4
          /\ Solves(p)[1] = Event("trsm_UH", 1)
          /\ Solves(p)[3] = Event("trsm_L", 2)

\* C17: past the quick returns every process makes its calls in the pattern
\* allocation, norm1est (with kase = 0 and isave = {0,0,0,0}), two
\* broadcasts, then repeatedly two triangular solves, one norm1est, two
\* broadcasts; no solve and no norm1est call is made under request code 0
\* after the first call; between two estimator calls the driver writes X
\* only.
C17_CallPattern ==
    \A p \in Procs :
        /\ \A i \in 1 .. Len(trace[p]) :
              LET e == trace[p][i]
                  j == i - 3
              IN  IF i <= 3
                  THEN e = Event(<<"alloc_X", "alloc_V", "alloc_isgn">>[i], -1)
                  ELSE IF j = 1 THEN e = Event("norm1est", 0)
                  ELSE IF j = 2 THEN e = Event("MPI_Bcast_isave", root)
                  ELSE IF j = 3 THEN e = Event("MPI_Bcast_kase", root)
                  ELSE IF (j - 4) % 5 \in {0, 1} THEN IsSolve(e) /\ e[2] # 0
                  ELSE IF (j - 4) % 5 = 2 THEN e[1] = "norm1est" /\ e[2] # 0
                  ELSE IF (j - 4) % 5 = 3 THEN e = Event("MPI_Bcast_isave", root)
                  ELSE e = Event("MPI_Bcast_kase", root)
        /\ (gpc[p] = "norm1est" /\ round[p] = 0) =>
              (kase[p] = 0 /\ isave[p] = <<0, 0, 0, 0>> /\ written[p] = {})
        /\ (gpc[p] = "norm1est" /\ round[p] > 0) => written[p] = {"X"}
        /\ written[p] \subseteq {"X"}
        /\ (Returned(p) /\ round[p] > 0) =>
              (kase[p] = 0 /\ trace[p][Len(trace[p])] = Event("MPI_Bcast_kase", root))

C17_Witness ==
    \E p \in Procs \ {root} :
        /\ Returned(p) /\ round[p] = 5
        /\ Len(trace[p]) = 3 + 3 + 5 * 4

\* C18: a process that fails with a precondition error (invalid norm
\* selector, negative or NaN Anorm) has allocated nothing, has made no
\* norm1est call, broadcast or triangular solve, and has produced no result;
\* the error message names the failed check.
C18_FailsBeforeAnyWork ==
    \A p \in Procs :
        gpc[p] = "error" =>
            /\ ~ValidNorm \/ InvalidAnorm
            /\ err[p] = (IF ~ValidNorm THEN "invalid norm." ELSE "invalid Anorm")
            /\ trace[p] = <<>>
            /\ round[p] = 0
            /\ written[p] = {}
            /\ rcond[p] = NoValue
            /\ sentIsave = <<>> /\ sentKase = <<>>
            /\ \A q \in Procs : chan[q] = <<>>

C18_Witness ==
    /\ \A p \in Procs : gpc[p] = "error"
    /\ \E p \in Procs : err[p] = "invalid Anorm"
    /\ isnan(Anorm)
    /\ m = 2

\* C19: whether Ainvnorm is identical on every process at loop exit is
\* decided inside internal::norm1est, which writes Ainvnorm on each process;
\* gecondest itself broadcasts isave and kase only.  No formula is stated.

\* C20: every normal return is a non-negative scalar with a nonzero
\* denominator: the reciprocal (1/Ainvnorm)/Anorm is formed only when
\* Ainvnorm # 0 and Anorm > 0, and a loop exit with Ainvnorm = 0 returns
\* exactly 0.  rcond[p] is the fraction <<numerator, denominator>>.
C20_NonNegativeNoDivByZero ==
    \A p \in Procs :
        Returned(p) =>
            /\ rcond[p][1] >= 0 /\ rcond[p][2] > 0
            /\ ~isnan(Anorm) /\ Anorm.v >= 0
            /\ round[p] > 0 =>
                  /\ Anorm.v > 0
                  /\ Ainvnorm[p] = 0 => rcond[p] = <<0, 1>>
                  /\ Ainvnorm[p] # 0 =>
                        /\ Ainvnorm[p] > 0
                        /\ rcond[p] = <<1, Ainvnorm[p] * Anorm.v>>

C20_Witness ==
    /\ \E p \in Procs :
          Returned(p) /\ round[p] > 0 /\ Ainvnorm[p] # 0 /\ rcond[p] = <<1, 2>>
    /\ \E q \in Procs :
          Returned(q) /\ round[q] > 0 /\ Ainvnorm[q] = 0 /\ rcond[q] = <<0, 1>>

====
